---- MODULE Spec2Model ----
(***************************************************************************)
(* A model of the two sweep jobs of m_sweep:                               *)
(*   run_m_sweep.py      the fixed-grid job      (variant "fixed")         *)
(*   run_m_sweep_ivf.py  the parametric-grid job (variant "ivf")           *)
(* A job builds its grid, selects its group of at most 4 configurations,   *)
(* creates its results directory and log, and then, configuration by       *)
(* configuration and mode by mode, either skips the pair (its artifact     *)
(* exists) or runs the worker command through run_cmd.  The worker is an   *)
(* opaque subprocess: what it prints, whether it writes its artifact and   *)
(* its exit code are choices of the environment.                           *)
(*                                                                         *)
(* Text is modelled as a sequence of one-character strings, so that        *)
(* split, strip and int are computed and not assumed.                      *)
(***************************************************************************)
EXTENDS Integers, Sequences, FiniteSets, TLC

VARIABLES
    variant,      \* which script runs: "fixed" or "ivf"
    group,        \* --group
    m13,          \* --m13 (ivf only; 0 in the fixed job, which has no such flag)
    s2_values,    \* --s2_values, a text (ivf only)
    results_tag,  \* --results_tag, a text (ivf only)
    ts,           \* the second datetime.now() reports when the job starts
    wout,         \* the lines a worker of this behaviour prints before it exits
    hyper,        \* the adapter hyperparameters and --slug of the job
    pc,           \* the job's position in main()
    full_grid,    \* the grid (GRID_MS, or the parametric full_grid)
    ms_list,      \* the selected slice
    cfgIdx,       \* position of the for loop in ms_list (1-based)
    modeIdx,      \* which of the configuration's invocations is next (1-based)
    error,        \* the exception that ended the job, or NoError
    dirs,         \* directories that exist
    artifacts,    \* result CSV files that exist
    logs,         \* log files that exist, each with its lines
    teeOpen,      \* whether the job holds its log file open
    teePos,       \* the position of the job's log file handle, in lines
    console,      \* the lines this job run wrote to its stdout
    procs,        \* the worker subprocesses this job run spawned, in spawn order
    trace,        \* what this job run did, in order (checks, skips, spawns, exits)
    arts0,        \* the artifacts that existed when this job run started
    slug,         \* a.slug: as given, then as main() derives it
    other         \* a second job process, while this one is not scheduled

vars == <<variant, group, m13, s2_values, results_tag, ts, wout, hyper, pc,
          full_grid, ms_list, cfgIdx, modeIdx, error, dirs, artifacts, logs,
          teeOpen, teePos, console, procs, trace, arts0, slug, other>>

\* what one behaviour never changes: the command line shared by the job
\* processes and the worker's script
args == <<variant, group, m13, s2_values, results_tag, ts, wout>>

----------------------------------------------------------------------------
(* Bounds of the model *)

\* longest --s2_values text enumerated character by character
MaxLen == 3
\* group indices tried by the grid specification: -MaxGroup .. MaxGroup
MaxGroup == 5
\* the number of lines each worker prints in the job specification
MaxWorkerLines == 1

----------------------------------------------------------------------------
(* Text *)

Min(a, b) == IF a < b THEN a ELSE b

Whitespace == {" ", "\t", "\n"}

\* str.split(","): the pieces between commas; "" splits into one empty piece
Split(s) ==
    LET F[i \in 0..Len(s)] ==
            IF i = 0 THEN << <<>> >>
            ELSE LET p == F[i - 1] IN
                 IF s[i] = "," THEN Append(p, <<>>)
                 ELSE [p EXCEPT ![Len(p)] = Append(@, s[i])]
    IN F[Len(s)]

RECURSIVE LStrip(_)
LStrip(s) == IF s # <<>> /\ Head(s) \in Whitespace THEN LStrip(Tail(s)) ELSE s

RECURSIVE RStrip(_)
RStrip(s) ==
    IF s # <<>> /\ s[Len(s)] \in Whitespace
    THEN RStrip(SubSeq(s, 1, Len(s) - 1)) ELSE s

\* str.strip()
Strip(s) == RStrip(LStrip(s))

DigitVal(c) ==
    CASE c = "0" -> 0 [] c = "1" -> 1 [] c = "2" -> 2 [] c = "3" -> 3
      [] c = "4" -> 4 [] c = "5" -> 5 [] c = "6" -> 6 [] c = "7" -> 7
      [] c = "8" -> 8 [] c = "9" -> 9

\* int(x) of a text of decimal digits
RECURSIVE IntOf(_)
IntOf(s) ==
    IF s = <<>> THEN 0
    ELSE 10 * IntOf(SubSeq(s, 1, Len(s) - 1)) + DigitVal(s[Len(s)])

\* list[start:end] with Python's clamping of negative and oversized indices
PyIndex(i, n) == IF i < 0 THEN (IF i + n < 0 THEN 0 ELSE i + n)
                 ELSE Min(i, n)

PySlice(s, start, end) ==
    LET lo == PyIndex(start, Len(s))
        hi == PyIndex(end, Len(s))
    IN IF lo < hi THEN SubSeq(s, lo + 1, hi) ELSE <<>>

----------------------------------------------------------------------------
(* Grid Builder and Group Selector *)

GRID_MS == <<
    <<1,1,1>>, <<1,2,1>>, <<1,4,1>>, <<1,8,1>>,
    <<2,1,2>>, <<2,2,2>>, <<2,4,2>>, <<2,8,2>>,
    <<4,1,4>>, <<4,2,4>>, <<4,4,4>>, <<4,8,4>>,
    <<8,1,8>>, <<8,2,8>>, <<8,4,8>>, <<8,8,8>> >>

BatchSize == 4

\* allowed = {"1", "2", "4", "8", "16", "32"}
allowed == { <<"1">>, <<"2">>, <<"4">>, <<"8">>, <<"1","6">>, <<"3","2">> }

NonEmptyStripped(x) == Strip(x) # <<>>

IsAllowed(x) == x \in allowed

\* a slip: the pieces are tested stripped but kept unstripped
s2_rawUnstripped(text) == SelectSeq(Split(text), NonEmptyStripped)

\* s2_raw = [x.strip() for x in a.s2_values.split(",") if x.strip()]
s2_raw(text) ==
    LET kept == SelectSeq(Split(text), NonEmptyStripped)
    IN [i \in 1..Len(kept) |-> Strip(kept[i])]

\* s2_list = [int(x) for x in s2_raw if x in allowed]
s2_list(text) ==
    LET kept == SelectSeq(s2_raw(text), IsAllowed)
    IN [i \in 1..Len(kept) |-> IntOf(kept[i])]

\* full_grid = [(a.m13, m2, a.m13) for m2 in s2_list]
ParamGrid(m, text) ==
    LET l == s2_list(text) IN [i \in 1..Len(l) |-> <<m, l[i], m>>]

\* a slip: the group index taken as 1-based
GroupSliceOneBased(grid, g) ==
    LET start == (g - 1) * BatchSize
        end == Min(start + BatchSize, Len(grid))
    IN PySlice(grid, start, end)

\* start = a.group * 4; end = min(start + 4, len(grid)); grid[start:end]
GroupSlice(grid, g) ==
    LET start == g * BatchSize
        end == Min(start + BatchSize, Len(grid))
    IN PySlice(grid, start, end)

----------------------------------------------------------------------------
(* Names on disk *)

\* tag = f"g{a.group}_{ts}"                                   (fixed)
\* tag = a.results_tag.strip() or f"m13{a.m13}_g{a.group}_{ts}"  (ivf)
JobTag(v, g, m, rtag, t) ==
    IF v = "fixed"
    THEN [kind |-> "g", m13 |-> 0, group |-> g, ts |-> t, text |-> <<>>]
    ELSE IF Strip(rtag) # <<>>
         THEN [kind |-> "custom", m13 |-> 0, group |-> 0, ts |-> 0,
               text |-> Strip(rtag)]
         ELSE [kind |-> "m13", m13 |-> m, group |-> g, ts |-> t, text |-> <<>>]

tag == JobTag(variant, group, m13, results_tag, ts)

NoTag == [kind |-> "", m13 |-> 0, group |-> 0, ts |-> 0, text |-> <<>>]

\* run_root, run_root / "results", results_dir = run_root / "results" / tag
RunRootDir == [d |-> "run_root", tag |-> NoTag]
ResultsParentDir == [d |-> "results", tag |-> NoTag]
results_dir(t) == [d |-> "results_dir", tag |-> t]

\* a slip: the dual invocation placed before the baseline one
ModesDualFirst(v) ==
    IF v = "fixed"
    THEN << [mode |-> "dbam_dual_adapter", prefix |-> "dbam_dual_with_adapter"],
            [mode |-> "ivf_fp32_adapter", prefix |-> "ivf_with_adapter"] >>
    ELSE << [mode |-> "ivf_fp32_adapter", prefix |-> "ivf_adapter"] >>

\* the invocations made for one configuration, in the order of the code:
\* the worker's --mode and the prefix of its --out_csv file
Modes(v) ==
    IF v = "fixed"
    THEN << [mode |-> "ivf_fp32_adapter", prefix |-> "ivf_with_adapter"],
            [mode |-> "dbam_dual_adapter", prefix |-> "dbam_dual_with_adapter"] >>
    ELSE << [mode |-> "ivf_fp32_adapter", prefix |-> "ivf_adapter"] >>

\* a slip: the file name without the configuration's ms_tag
ArtifactPerMode(t, prefix, cfg) == [tag |-> t, prefix |-> prefix, cfg |-> <<>>]

\* results_dir / f"{prefix}_{ms_tag}.csv"
Artifact(t, prefix, cfg) == [tag |-> t, prefix |-> prefix, cfg |-> cfg]

----------------------------------------------------------------------------
(* The slug of the adapter hyperparameters *)

\* a float given on the command line is the decimal n / 10^k, kept in lowest
\* form (k = 0 or n not a multiple of 10); the values used lie in
\* 0.0001 <= x < 10^16, where repr(x) is positional
Dec(n, k) == [n |-> n, k |-> k]

RECURSIVE Pow10(_)
Pow10(k) == IF k = 0 THEN 1 ELSE 10 * Pow10(k - 1)

DigitChar(d) == <<"0", "1", "2", "3", "4", "5", "6", "7", "8", "9">>[d + 1]

\* the last w decimal digits of n >= 0, with leading zeros
RECURSIVE PadText(_, _)
PadText(n, w) ==
    IF w = 0 THEN <<>> ELSE Append(PadText(n \div 10, w - 1), DigitChar(n % 10))

\* f"{i}" of an int
RECURSIVE IntText(_)
IntText(n) ==
    IF n < 0 THEN <<"-">> \o IntText(-n)
    ELSE IF n < 10 THEN <<DigitChar(n)>>
    ELSE Append(IntText(n \div 10), DigitChar(n % 10))

\* f"{x}" of a float: the integer part, a point, the fraction ("0" if none)
FloatText(x) ==
    LET a == IF x.n < 0 THEN -x.n ELSE x.n
        sign == IF x.n < 0 THEN <<"-">> ELSE <<>>
    IN sign \o IntText(a \div Pow10(x.k)) \o <<".">> \o
       (IF x.k = 0 THEN <<"0">> ELSE PadText(a % Pow10(x.k), x.k))

\* s.replace(".", "")
RemoveDots(s) == LET NotDot(c) == c # "." IN SelectSeq(s, NotDot)

\* "auto", the default of --slug
SlugAuto == <<"a", "u", "t", "o">>

\* def auto_slug(a)
auto_slug(a) ==
    IF a.slug # SlugAuto THEN a.slug
    ELSE RemoveDots(
           <<"t", "a", "u">> \o FloatText(a.tau) \o
           <<"_", "b">> \o FloatText(a.beta) \o
           <<"_", "c">> \o IntText(a.cands) \o
           <<"_">> \o a.teacher \o
           <<"_", "l", "r">> \o FloatText(a.lr) \o
           <<"_", "e">> \o IntText(a.epochs) \o
           <<"_", "s">> \o IntText(a.subset))

\* a.slug after the first line of main(): the parametric job derives it, the
\* fixed-grid job has no derivation and hands --slug to the worker as given
JobSlug(v, a) == IF v = "ivf" THEN auto_slug(a) ELSE a.slug

----------------------------------------------------------------------------
(* Lines, events, errors *)

Line(k, cfg, mode, text) == [k |-> k, cfg |-> cfg, mode |-> mode, text |-> text]

Event(e, ci, mi, cfg, mode, rc) ==
    [ev |-> e, ci |-> ci, mi |-> mi, cfg |-> cfg, mode |-> mode, rc |-> rc]

NoError == [type |-> "none", msg |-> "", group |-> 0, size |-> 0, rc |-> 0,
            cfg |-> <<>>, mode |-> ""]

\* ValueError("No valid m2 values from --s2_values; ...")
NoValidM2Error == [NoError EXCEPT !.type = "ValueError", !.msg = "no_valid_m2"]

\* ValueError(f"Group {a.group} has no configs ...")
GroupEmptyError(g, n) ==
    [NoError EXCEPT !.type = "ValueError", !.msg = "group_has_no_configs",
                    !.group = g, !.size = n]

\* RuntimeError(f"Command failed ({p.returncode}): {cmd}")
CommandFailedError(rc, cfg, mode) ==
    [NoError EXCEPT !.type = "RuntimeError", !.msg = "command_failed",
                    !.rc = rc, !.cfg = cfg, !.mode = mode]

\* what the job writes before the first invocation of a configuration
HeaderConsole(v, cfg) ==
    IF v = "fixed" THEN << Line("header", cfg, "", "") >> ELSE <<>>

HeaderLog(v, cfg) ==
    IF v = "fixed" THEN << Line("header", cfg, "", "") >>
    ELSE << Line("config", cfg, "", "") >>

\* what the job writes when the artifact exists: the ivf job prints and logs
\* "[skip] <csv> exists"; the fixed job has no else branch
SkipNotice(v, cfg, mode) ==
    IF v = "ivf" THEN << Line("skip", cfg, mode, "") >> ELSE <<>>

\* what the job prints after the loop
FinishConsole(v) ==
    IF v = "fixed"
    THEN << Line("complete", <<>>, "", ""), Line("results_in", <<>>, "", "") >>
    ELSE <<>>

ExitCodes == {0, 1}

----------------------------------------------------------------------------
(* The job: main() *)

Cfg == ms_list[cfgIdx]
Mode == Modes(variant)[modeIdx]
Cur == procs[Len(procs)]

\* a file is a sequence of lines; a write at a position past its end leaves
\* a hole, a write inside it replaces what was there
Hole == Line("hole", <<>>, "", "")

WriteAt(content, pos, lines) ==
    LET padded == IF Len(content) < pos
                  THEN content \o [i \in 1..(pos - Len(content)) |-> Hole]
                  ELSE content
    IN SubSeq(padded, 1, pos) \o lines \o
       SubSeq(padded, pos + Len(lines) + 1, Len(padded))

\* tee.write(...): the file was opened with "w", so the lines go to the
\* position of this job's handle, which is the end of the file as long as no
\* other process has the file open
LogAppend(lines) == [logs EXCEPT ![tag] = WriteAt(@, teePos, lines)]

\* a slip: the "if not s2_list" test left out
BuildGridUnchecked ==
    /\ pc = "start"
    /\ slug' = JobSlug(variant, hyper)
    /\ full_grid' = IF variant = "fixed" THEN GRID_MS
                    ELSE ParamGrid(m13, s2_values)
    /\ pc' = "grid"
    /\ UNCHANGED <<args, hyper, other, ms_list, cfgIdx, modeIdx, error,
                   dirs, artifacts, logs, teePos, teeOpen, console, procs,
                   trace, arts0>>

\* a slip: the run root is made before the sweep list is looked at
BuildGridAfterMkdir ==
    /\ pc = "start"
    /\ slug' = JobSlug(variant, hyper)
    /\ dirs' = dirs \cup {RunRootDir}
    /\ IF variant = "ivf" /\ s2_list(s2_values) = <<>>
       THEN /\ error' = NoValidM2Error
            /\ pc' = "failed"
            /\ UNCHANGED full_grid
       ELSE /\ full_grid' = IF variant = "fixed" THEN GRID_MS
                            ELSE ParamGrid(m13, s2_values)
            /\ pc' = "grid"
            /\ UNCHANGED error
    /\ UNCHANGED <<args, hyper, other, ms_list, cfgIdx, modeIdx,
                   artifacts, logs, teePos, teeOpen, console, procs, trace,
                   arts0>>

\* lines 105-116 (ivf): derive the slug, parse --s2_values, fail if nothing is
\* valid, build the grid; the fixed job's grid is the module constant GRID_MS
BuildGrid ==
    /\ pc = "start"
    /\ slug' = JobSlug(variant, hyper)
    /\ IF variant = "ivf" /\ s2_list(s2_values) = <<>>
       THEN /\ error' = NoValidM2Error
            /\ pc' = "failed"
            /\ UNCHANGED full_grid
       ELSE /\ full_grid' = IF variant = "fixed" THEN GRID_MS
                            ELSE ParamGrid(m13, s2_values)
            /\ pc' = "grid"
            /\ UNCHANGED error
    /\ UNCHANGED <<args, hyper, other, ms_list, cfgIdx, modeIdx, dirs,
                   artifacts, logs, teePos, teeOpen, console, procs, trace,
                   arts0>>

\* a slip: the "if not ms_list" test left out
SelectGroupUnchecked ==
    /\ pc = "grid"
    /\ ms_list' = GroupSlice(full_grid, group)
    /\ pc' = "selected"
    /\ UNCHANGED <<args, hyper, other, slug, full_grid, cfgIdx, modeIdx,
                   error, dirs, artifacts, logs, teePos, teeOpen, console,
                   procs, trace, arts0>>

\* lines 64-69 (fixed), 118-124 (ivf): slice the grid, fail on an empty slice
SelectGroup ==
    /\ pc = "grid"
    /\ ms_list' = GroupSlice(full_grid, group)
    /\ IF ms_list' = <<>>
       THEN /\ error' = GroupEmptyError(group, Len(full_grid))
            /\ pc' = "failed"
       ELSE /\ pc' = "selected"
            /\ UNCHANGED error
    /\ UNCHANGED <<args, hyper, other, slug, full_grid, cfgIdx, modeIdx,
                   dirs, artifacts, logs, teePos, teeOpen, console, procs,
                   trace, arts0>>

\* lines 71-95 (fixed), 126-149 (ivf): mkdir run_root and results_dir,
\* open(log_path, "w"), print "Logging to ...", and (ivf) write the log's title
OpenRun ==
    /\ pc = "selected"
    /\ dirs' = dirs \cup {RunRootDir, ResultsParentDir, results_dir(tag)}
    /\ logs' = [t \in DOMAIN logs \cup {tag} |->
                  IF t = tag
                  THEN (IF variant = "ivf"
                        THEN << Line("title", <<>>, "", "") >> ELSE <<>>)
                  ELSE logs[t]]
    /\ teeOpen' = TRUE
    /\ teePos' = Len(logs'[tag])
    /\ console' = Append(console, Line("logging_to", <<>>, "", ""))
    /\ cfgIdx' = 1
    /\ modeIdx' = 1
    /\ pc' = "loop"
    /\ UNCHANGED <<args, hyper, other, slug, full_grid, ms_list, error,
                   artifacts, procs, trace, arts0>>

\* a slip: after a pair the loop goes on to the next configuration
AdvanceToNextConfig(con) ==
    IF cfgIdx < Len(ms_list)
    THEN /\ cfgIdx' = cfgIdx + 1
         /\ modeIdx' = 1
         /\ console' = con
         /\ pc' = "loop"
         /\ UNCHANGED teeOpen
    ELSE /\ console' = con \o FinishConsole(variant)
         /\ teeOpen' = FALSE
         /\ pc' = "done"
         /\ UNCHANGED <<cfgIdx, modeIdx>>

\* the step of the loops after a pair is dealt with: the next mode of the
\* configuration, else the next configuration, else the end of the with block
Advance(con) ==
    IF modeIdx < Len(Modes(variant))
    THEN /\ modeIdx' = modeIdx + 1
         /\ console' = con
         /\ pc' = "loop"
         /\ UNCHANGED <<cfgIdx, teeOpen>>
    ELSE IF cfgIdx < Len(ms_list)
    THEN /\ cfgIdx' = cfgIdx + 1
         /\ modeIdx' = 1
         /\ console' = con
         /\ pc' = "loop"
         /\ UNCHANGED teeOpen
    ELSE /\ console' = con \o FinishConsole(variant)
         /\ teeOpen' = FALSE
         /\ pc' = "done"
         /\ UNCHANGED <<cfgIdx, modeIdx>>

\* a slip: every invocation of a configuration guarded by the baseline file
CheckArtifactBaselineOnly ==
    /\ pc = "loop"
    /\ LET first == modeIdx = 1
           con == IF first THEN console \o HeaderConsole(variant, Cfg)
                  ELSE console
           hdr == IF first THEN HeaderLog(variant, Cfg) ELSE <<>>
           csv == Artifact(tag, Modes(variant)[1].prefix, Cfg)
       IN IF csv \in artifacts
          THEN /\ logs' = LogAppend(hdr \o SkipNotice(variant, Cfg, Mode.mode))
               /\ teePos' = teePos + Len(hdr \o SkipNotice(variant, Cfg, Mode.mode))
               /\ trace' = trace \o
                     << Event("check", cfgIdx, modeIdx, Cfg, Mode.mode, 0),
                        Event("skip", cfgIdx, modeIdx, Cfg, Mode.mode, 0) >>
               /\ Advance(con \o SkipNotice(variant, Cfg, Mode.mode))
          ELSE /\ logs' = LogAppend(hdr)
               /\ teePos' = teePos + Len(hdr)
               /\ trace' = Append(trace,
                     Event("check", cfgIdx, modeIdx, Cfg, Mode.mode, 0))
               /\ console' = con
               /\ pc' = "torun"
               /\ UNCHANGED <<cfgIdx, modeIdx, teeOpen>>
    /\ UNCHANGED <<args, hyper, other, slug, full_grid, ms_list, error, dirs,
                   artifacts, procs, arts0>>

\* lines 97-105, 124-126 (fixed), 151-160, 187-190 (ivf): at the first mode the
\* configuration's header; then csv.exists(): skip the pair, or go on to run it
CheckArtifact ==
    /\ pc = "loop"
    /\ LET first == modeIdx = 1
           con == IF first THEN console \o HeaderConsole(variant, Cfg)
                  ELSE console
           hdr == IF first THEN HeaderLog(variant, Cfg) ELSE <<>>
           csv == Artifact(tag, Mode.prefix, Cfg)
       IN IF csv \in artifacts
          THEN /\ logs' = LogAppend(hdr \o SkipNotice(variant, Cfg, Mode.mode))
               /\ teePos' = teePos + Len(hdr \o SkipNotice(variant, Cfg, Mode.mode))
               /\ trace' = trace \o
                     << Event("check", cfgIdx, modeIdx, Cfg, Mode.mode, 0),
                        Event("skip", cfgIdx, modeIdx, Cfg, Mode.mode, 0) >>
               /\ Advance(con \o SkipNotice(variant, Cfg, Mode.mode))
          ELSE /\ logs' = LogAppend(hdr)
               /\ teePos' = teePos + Len(hdr)
               /\ trace' = Append(trace,
                     Event("check", cfgIdx, modeIdx, Cfg, Mode.mode, 0))
               /\ console' = con
               /\ pc' = "torun"
               /\ UNCHANGED <<cfgIdx, modeIdx, teeOpen>>
    /\ UNCHANGED <<args, hyper, other, slug, full_grid, ms_list, error, dirs,
                   artifacts, procs, arts0>>

----------------------------------------------------------------------------
(* The Command Executor: run_cmd(cmd, env, tee) *)

NewProc(ci, mi, cfg, mode, prefix) ==
    [ci |-> ci, mi |-> mi, cfg |-> cfg, mode |-> mode, prefix |-> prefix,
     st |-> "running", rc |-> 0,
     emitted |-> 0, pipe |-> <<>>, reaped |-> FALSE]

\* a slip: Popen without reading the output or waiting for the exit
SpawnNoWait ==
    /\ pc = "torun"
    /\ procs' = Append(procs,
                       NewProc(cfgIdx, modeIdx, Cfg, Mode.mode, Mode.prefix))
    /\ trace' = Append(trace,
                       Event("spawn", cfgIdx, modeIdx, Cfg, Mode.mode, 0))
    /\ Advance(Append(console, Line("$", Cfg, Mode.mode, "")))
    /\ UNCHANGED <<args, hyper, other, slug, full_grid, ms_list, error, dirs,
                   artifacts, logs, teePos, arts0>>

\* lines 14-22 (fixed), 12-20 (ivf): echo the command, Popen
Spawn ==
    /\ pc = "torun"
    /\ console' = Append(console, Line("$", Cfg, Mode.mode, ""))
    /\ procs' = Append(procs,
                       NewProc(cfgIdx, modeIdx, Cfg, Mode.mode, Mode.prefix))
    /\ trace' = Append(trace,
                       Event("spawn", cfgIdx, modeIdx, Cfg, Mode.mode, 0))
    /\ pc' = "reading"
    /\ UNCHANGED <<args, hyper, other, slug, full_grid, ms_list, cfgIdx,
                   modeIdx, error, dirs, artifacts, logs, teePos, teeOpen,
                   arts0>>

\* lines 23-27 (fixed), 21-25 (ivf): one turn of "for line in p.stdout"
ReadLine ==
    /\ pc = "reading"
    /\ Cur.pipe # <<>>
    /\ LET line == Line("out", <<>>, "", Head(Cur.pipe)) IN
         /\ console' = Append(console, line)
         /\ logs' = IF teeOpen THEN LogAppend(<<line>>) ELSE logs
         /\ teePos' = IF teeOpen THEN teePos + 1 ELSE teePos
    /\ procs' = [procs EXCEPT ![Len(procs)].pipe = Tail(@)]
    /\ UNCHANGED <<args, hyper, other, slug, pc, full_grid, ms_list, cfgIdx,
                   modeIdx, error, dirs, artifacts, teeOpen, trace, arts0>>

\* a slip: the exit code is not looked at
ReapIgnoringExitCode ==
    /\ pc = "reading"
    /\ Cur.pipe = <<>>
    /\ Cur.st = "exited"
    /\ procs' = [procs EXCEPT ![Len(procs)].reaped = TRUE]
    /\ trace' = Append(trace,
                       Event("reap", Cur.ci, Cur.mi, Cur.cfg, Cur.mode, Cur.rc))
    /\ Advance(console)
    /\ UNCHANGED <<args, hyper, other, slug, full_grid, ms_list, error, dirs,
                   artifacts, logs, teePos, arts0>>

\* a slip: the failure is noted and the loop goes on
ReapContinue ==
    /\ pc = "reading"
    /\ Cur.pipe = <<>>
    /\ Cur.st = "exited"
    /\ procs' = [procs EXCEPT ![Len(procs)].reaped = TRUE]
    /\ trace' = Append(trace,
                       Event("reap", Cur.ci, Cur.mi, Cur.cfg, Cur.mode, Cur.rc))
    /\ error' = IF Cur.rc # 0 THEN CommandFailedError(Cur.rc, Cur.cfg, Cur.mode)
                ELSE error
    /\ Advance(console)
    /\ UNCHANGED <<args, hyper, other, slug, full_grid, ms_list, dirs,
                   artifacts, logs, teePos, arts0>>

\* a slip: the exit code is acted on without reading the output to its end
ReapBeforeEof ==
    /\ pc = "reading"
    /\ Cur.st = "exited"
    /\ procs' = [procs EXCEPT ![Len(procs)].reaped = TRUE]
    /\ trace' = Append(trace,
                       Event("reap", Cur.ci, Cur.mi, Cur.cfg, Cur.mode, Cur.rc))
    /\ IF Cur.rc # 0
       THEN /\ error' = CommandFailedError(Cur.rc, Cur.cfg, Cur.mode)
            /\ teeOpen' = FALSE
            /\ pc' = "failed"
            /\ UNCHANGED <<cfgIdx, modeIdx, console>>
       ELSE /\ Advance(console)
            /\ UNCHANGED error
    /\ UNCHANGED <<args, hyper, other, slug, full_grid, ms_list, dirs,
                   artifacts, logs, teePos, arts0>>

\* a slip: a non-zero exit code is waited on again and never raised
ReapOnlySuccess ==
    /\ pc = "reading"
    /\ Cur.pipe = <<>>
    /\ Cur.st = "exited"
    /\ Cur.rc = 0
    /\ procs' = [procs EXCEPT ![Len(procs)].reaped = TRUE]
    /\ trace' = Append(trace,
                       Event("reap", Cur.ci, Cur.mi, Cur.cfg, Cur.mode, Cur.rc))
    /\ IF Cur.rc # 0
       THEN /\ error' = CommandFailedError(Cur.rc, Cur.cfg, Cur.mode)
            /\ teeOpen' = FALSE
            /\ pc' = "failed"
            /\ UNCHANGED <<cfgIdx, modeIdx, console>>
       ELSE /\ Advance(console)
            /\ UNCHANGED error
    /\ UNCHANGED <<args, hyper, other, slug, full_grid, ms_list, dirs,
                   artifacts, logs, teePos, arts0>>

\* lines 28-30 (fixed), 26-28 (ivf): end of the worker's output, p.wait(), and
\* the exit code: non-zero raises RuntimeError out of main(), which closes the log
Reap ==
    /\ pc = "reading"
    /\ Cur.pipe = <<>>
    /\ Cur.st = "exited"
    /\ procs' = [procs EXCEPT ![Len(procs)].reaped = TRUE]
    /\ trace' = Append(trace,
                       Event("reap", Cur.ci, Cur.mi, Cur.cfg, Cur.mode, Cur.rc))
    /\ IF Cur.rc # 0
       THEN /\ error' = CommandFailedError(Cur.rc, Cur.cfg, Cur.mode)
            /\ teeOpen' = FALSE
            /\ pc' = "failed"
            /\ UNCHANGED <<cfgIdx, modeIdx, console>>
       ELSE /\ Advance(console)
            /\ UNCHANGED error
    /\ UNCHANGED <<args, hyper, other, slug, full_grid, ms_list, dirs,
                   artifacts, logs, teePos, arts0>>

----------------------------------------------------------------------------
(* The environment: the worker processes and the user *)

\* a running worker prints its next line
WorkerEmit ==
    \E i \in 1..Len(procs) :
       /\ procs[i].st = "running"
       /\ procs[i].emitted < Len(wout)
       /\ procs[i].reaped = FALSE
       /\ procs' = [procs EXCEPT ![i].emitted = @ + 1,
                                 ![i].pipe = Append(@, wout[procs[i].emitted + 1])]
       /\ UNCHANGED <<args, hyper, other, slug, pc, full_grid, ms_list, cfgIdx,
                   modeIdx, error, dirs, artifacts, logs, teePos, teeOpen,
                   console, trace, arts0>>

\* a running worker that has printed its lines exits, with any exit code,
\* having written its --out_csv file or not
WorkerExit ==
    \E i \in 1..Len(procs), rc \in ExitCodes, wrote \in BOOLEAN :
       /\ procs[i].st = "running"
       /\ procs[i].emitted = Len(wout)
       /\ procs' = [procs EXCEPT ![i].st = "exited", ![i].rc = rc]
       /\ artifacts' = IF wrote
                       THEN artifacts \cup
                              {Artifact(tag, procs[i].prefix, procs[i].cfg)}
                       ELSE artifacts
       /\ trace' = Append(trace, Event("exit", procs[i].ci, procs[i].mi,
                                        procs[i].cfg, procs[i].mode, rc))
       /\ UNCHANGED <<args, hyper, other, slug, pc, full_grid, ms_list, cfgIdx,
                   modeIdx, error, dirs, logs, teePos, teeOpen, console,
                   arts0>>

\* the user runs the same command again after the job has ended
Rerun ==
    /\ pc \in {"done", "failed"}
    /\ pc' = "start"
    /\ full_grid' = <<>>
    /\ ms_list' = <<>>
    /\ cfgIdx' = 0
    /\ modeIdx' = 0
    /\ error' = NoError
    /\ console' = <<>>
    /\ procs' = <<>>
    /\ trace' = <<>>
    /\ arts0' = artifacts
    /\ slug' = hyper.slug
    /\ teePos' = 0
    /\ UNCHANGED <<args, hyper, other, dirs, artifacts, logs, teeOpen>>

\* the state of one job process, and of no process
JobState == [pc |-> pc, full_grid |-> full_grid, ms_list |-> ms_list,
             cfgIdx |-> cfgIdx, modeIdx |-> modeIdx, error |-> error,
             teeOpen |-> teeOpen, teePos |-> teePos, console |-> console,
             procs |-> procs, trace |-> trace, arts0 |-> arts0,
             hyper |-> hyper, slug |-> slug]

\* a process of the script that has just been started with the arguments a
StartedJob(a, arts) ==
    [pc |-> "start", full_grid |-> <<>>, ms_list |-> <<>>, cfgIdx |-> 0,
     modeIdx |-> 0, error |-> NoError, teeOpen |-> FALSE, teePos |-> 0,
     console |-> <<>>, procs |-> <<>>, trace |-> <<>>, arts0 |-> arts,
     hyper |-> a, slug |-> a.slug]

\* two processes of the script run at once: the operating system takes the
\* processor from one and gives it to the other
Switch ==
    /\ other.pc # "absent"
    /\ other' = JobState
    /\ pc' = other.pc
    /\ full_grid' = other.full_grid
    /\ ms_list' = other.ms_list
    /\ cfgIdx' = other.cfgIdx
    /\ modeIdx' = other.modeIdx
    /\ error' = other.error
    /\ teeOpen' = other.teeOpen
    /\ teePos' = other.teePos
    /\ console' = other.console
    /\ procs' = other.procs
    /\ trace' = other.trace
    /\ arts0' = other.arts0
    /\ hyper' = other.hyper
    /\ slug' = other.slug
    /\ UNCHANGED <<args, dirs, artifacts, logs>>

----------------------------------------------------------------------------
(* Inputs and specifications *)

Alphabet == {"1", "6", ",", " ", "x"}

TextsUpTo(n) == UNION { [1..k -> Alphabet] : k \in 0..n }

\* "1,4,8,99,abc"
TextExample == <<"1",",","4",",","8",",","9","9",",","a","b","c">>
\* "1,2,4,8", the default of --s2_values
TextDefault == <<"1",",","2",",","4",",","8">>
\* "8, 16 ,1,32,2"
TextFive == <<"8",","," ","1","6"," ",",","1",",","3","2",",","2">>
\* "99"
TextInvalid == <<"9","9">>
\* "1,2,1": the same value twice
TextRepeat == <<"1",",","2",",","1">>

\* choices=[1, 2, 4, 8, 16, 32]
M13Choices == {1, 2, 4, 8, 16, 32}

\* the defaults of parse_args: --tau 0.5 --beta 6.0 --cands 2048 --teacher cos
\* --lr 5e-4 --epochs 5 --subset 50000 --q_batch 64 --slug auto
HyperDefault ==
    [tau |-> Dec(5, 1), beta |-> Dec(6, 0), cands |-> 2048,
     teacher |-> <<"c", "o", "s">>, lr |-> Dec(5, 4), epochs |-> 5,
     subset |-> 50000, q_batch |-> 64, slug |-> SlugAuto]

\* no second process
NoJob == [StartedJob(HyperDefault, {}) EXCEPT !.pc = "absent"]

\* a job process that has just been started
FreshProcess ==
    /\ pc = "start"
    /\ full_grid = <<>>
    /\ ms_list = <<>>
    /\ cfgIdx = 0
    /\ modeIdx = 0
    /\ error = NoError
    /\ teeOpen = FALSE
    /\ teePos = 0
    /\ console = <<>>
    /\ procs = <<>>
    /\ trace = <<>>
    /\ arts0 = artifacts
    /\ slug = hyper.slug

EmptyDisk ==
    /\ dirs = {}
    /\ artifacts = {}
    /\ logs = <<>>

\* one job process, just started, on an empty file system
FreshJob ==
    /\ EmptyDisk
    /\ FreshProcess
    /\ other = NoJob

FixedArgs(groups) ==
    /\ variant = "fixed"
    /\ group \in groups
    /\ m13 = 0
    /\ s2_values = <<>>
    /\ results_tag = <<>>

IvfArgs(groups, ms, texts, tags) ==
    /\ variant = "ivf"
    /\ group \in groups
    /\ m13 \in ms
    /\ s2_values \in texts
    /\ results_tag \in tags

\* what a worker prints: n lines, each different from the others
WorkerScript(n) == [i \in 1..n |-> <<"a", "b", "c", "d">>[i]]

\* the jobs whose whole run is explored: the fixed-grid job with its first and
\* last group and with groups outside the grid, the parametric job with grids
\* of 3 and 5 configurations, a grid with a repeated configuration and two
\* texts with no valid value, with and without --results_tag
Init ==
    /\ \/ FixedArgs({-1, 0, 3, 4, 5})
       \/ IvfArgs({-1, 0, 1, 2}, {4},
                  {TextExample, TextFive, TextRepeat, TextInvalid, <<>>},
                  {<<>>, <<" ", "t">>})
    /\ ts = 1
    /\ wout = WorkerScript(MaxWorkerLines)
    /\ hyper = HyperDefault
    /\ FreshJob

Next ==
    \/ BuildGrid
    \/ SelectGroup
    \/ OpenRun
    \/ CheckArtifact
    \/ Spawn
    \/ ReadLine
    \/ Reap
    \/ WorkerEmit
    \/ WorkerExit
    \/ Rerun

Spec == Init /\ [][Next]_vars

\* grid building and group selection alone, over many inputs
InitGrid ==
    /\ \/ FixedArgs(-MaxGroup..MaxGroup)
       \/ IvfArgs(-MaxGroup..MaxGroup, M13Choices,
                  TextsUpTo(MaxLen) \cup {TextExample, TextDefault, TextFive,
                                          TextInvalid},
                  {<<>>})
    /\ ts = 1
    /\ wout = <<>>
    /\ hyper = HyperDefault
    /\ FreshJob

NextGrid ==
    \/ BuildGrid
    \/ SelectGroup

SpecGrid == InitGrid /\ [][NextGrid]_vars

\* "1,2"
TextTwo == <<"1", ",", "2">>

\* what an earlier job with the same tag left behind when its first worker
\* wrote its file and then failed: the directories, the log as far as it was
\* written, and that file
DiskAfterFailedJob ==
    LET grid == IF variant = "fixed" THEN GRID_MS ELSE ParamGrid(m13, s2_values)
        cfg == GroupSlice(grid, group)[1]
    IN /\ dirs = {RunRootDir, ResultsParentDir, results_dir(tag)}
       /\ artifacts = {Artifact(tag, Modes(variant)[1].prefix, cfg)}
       /\ logs = [t \in {tag} |->
                    (IF variant = "ivf" THEN << Line("title", <<>>, "", "") >>
                     ELSE <<>>) \o HeaderLog(variant, cfg)
                    \o [i \in 1..Len(wout) |-> Line("out", <<>>, "", wout[i])]]

\* two processes of the same command started at once, so that they share the
\* results directory and the group: the parametric job with --results_tag t
\* and a grid of two configurations, on an empty disk or after an earlier job
InitTwo ==
    /\ IvfArgs({0}, {4}, {TextTwo}, {<<"t">>})
    /\ ts = 1
    /\ wout = WorkerScript(MaxWorkerLines)
    /\ hyper = HyperDefault
    /\ EmptyDisk \/ DiskAfterFailedJob
    /\ FreshProcess
    /\ other = StartedJob(hyper, artifacts)

NextTwo ==
    \/ BuildGrid
    \/ SelectGroup
    \/ OpenRun
    \/ CheckArtifact
    \/ Spawn
    \/ ReadLine
    \/ Reap
    \/ WorkerEmit
    \/ WorkerExit
    \/ Switch

SpecTwo == InitTwo /\ [][NextTwo]_vars

\* the most lines a worker prints in the executor specification
MaxExecLines == 2

\* the whole job again, for a small grid and for workers that print nothing,
\* one line or more lines
InitExec ==
    /\ IvfArgs({0}, {4}, {TextTwo}, {<<>>})
    /\ ts = 1
    /\ wout \in {WorkerScript(n) : n \in 0..MaxExecLines}
    /\ hyper = HyperDefault
    /\ FreshJob

SpecExec == InitExec /\ [][Next]_vars

\* what an earlier job with another tag left in the same run root
DiskOfEarlierJob ==
    LET t == JobTag("fixed", 0, 0, <<>>, 0)
    IN /\ dirs = {RunRootDir, ResultsParentDir, results_dir(t)}
       /\ artifacts = {Artifact(t, Modes("fixed")[1].prefix, GRID_MS[1])}
       /\ logs = [x \in {t} |-> HeaderLog("fixed", GRID_MS[1])]

\* the jobs of the grid specification, on an empty disk and on a used one, up
\* to the opening of the log
InitAbort ==
    /\ \/ FixedArgs(-MaxGroup..MaxGroup)
       \/ IvfArgs(-MaxGroup..MaxGroup, {4},
                  TextsUpTo(MaxLen) \cup {TextExample, TextFive, TextInvalid},
                  {<<>>})
    /\ ts = 1
    /\ wout = <<>>
    /\ hyper = HyperDefault
    /\ EmptyDisk \/ DiskOfEarlierJob
    /\ FreshProcess
    /\ other = NoJob

NextAbort ==
    \/ BuildGrid
    \/ SelectGroup
    \/ OpenRun

SpecAbort == InitAbort /\ [][NextAbort]_vars

\* a step of the job process itself
JobStep ==
    \/ BuildGrid
    \/ SelectGroup
    \/ OpenRun
    \/ CheckArtifact
    \/ Spawn
    \/ ReadLine
    \/ Reap

\* one run of a job: the fixed-grid job with a group of four and with an
\* empty group, the parametric job with groups of four, two and none and with
\* no valid value
InitLive ==
    /\ \/ FixedArgs({0, 4})
       \/ IvfArgs({0, 1}, {4}, {TextDefault, TextTwo, TextInvalid}, {<<>>})
    /\ ts = 1
    /\ wout = WorkerScript(MaxWorkerLines)
    /\ hyper = HyperDefault
    /\ FreshJob

NextLive ==
    \/ JobStep
    \/ WorkerEmit
    \/ WorkerExit

\* the job process keeps running, and every worker goes on printing and then
\* exits
SpecLive ==
    /\ InitLive
    /\ [][NextLive]_vars
    /\ WF_vars(JobStep)
    /\ WF_vars(WorkerEmit)
    /\ WF_vars(WorkerExit)

\* hyperparameter sets: the defaults, and the defaults with one value changed
\* (--tau 1.25, --tau 12.5, --beta 0.6, --cands 204, --teacher dot, --lr 0.005,
\* --epochs 50, --subset 5000, --q_batch 128, --slug my)
HyperVariants ==
    { HyperDefault,
      [HyperDefault EXCEPT !.tau = Dec(125, 2)],
      [HyperDefault EXCEPT !.tau = Dec(125, 1)],
      [HyperDefault EXCEPT !.beta = Dec(6, 1)],
      [HyperDefault EXCEPT !.cands = 204],
      [HyperDefault EXCEPT !.teacher = <<"d", "o", "t">>],
      [HyperDefault EXCEPT !.lr = Dec(5, 3)],
      [HyperDefault EXCEPT !.epochs = 50],
      [HyperDefault EXCEPT !.subset = 5000],
      [HyperDefault EXCEPT !.q_batch = 128],
      [HyperDefault EXCEPT !.slug = <<"m", "y">>] }

\* two processes of the parametric job, each with its own hyperparameters, up
\* to the point where the slug is derived and the grid is built
InitSlug ==
    /\ IvfArgs({0}, {4}, {TextDefault}, {<<>>})
    /\ ts = 1
    /\ wout = <<>>
    /\ hyper \in HyperVariants
    /\ EmptyDisk
    /\ FreshProcess
    /\ other \in {StartedJob(h, {}) : h \in HyperVariants}

NextSlug ==
    \/ BuildGrid
    \/ Switch

SpecSlug == InitSlug /\ [][NextSlug]_vars

----------------------------------------------------------------------------
(* What the claims speak of, stated without the operators that model the   *)
(* code                                                                    *)

\* the pieces of a comma-separated text, by the positions of its commas
ClaimCommas(text) == {i \in 1..Len(text) : text[i] = ","}

ClaimBound(text, k) ==
    IF k = 0 THEN 0
    ELSE IF k > Cardinality(ClaimCommas(text)) THEN Len(text) + 1
    ELSE CHOOSE i \in ClaimCommas(text) :
            Cardinality({j \in ClaimCommas(text) : j < i}) = k - 1

ClaimTokenCount(text) == Cardinality(ClaimCommas(text)) + 1

ClaimToken(text, k) ==
    SubSeq(text, ClaimBound(text, k - 1) + 1, ClaimBound(text, k) - 1)

\* a piece without the whitespace around it
ClaimTrimmed(tok) ==
    LET ink == {i \in 1..Len(tok) : tok[i] \notin {" ", "\t", "\n"}}
    IN IF ink = {} THEN <<>>
       ELSE SubSeq(tok, CHOOSE i \in ink : \A j \in ink : i <= j,
                        CHOOSE i \in ink : \A j \in ink : i >= j)

\* the allowed set {1,2,4,8,16,32}, each value with its text
ClaimAllowed ==
    { << <<"1">>, 1 >>, << <<"2">>, 2 >>, << <<"4">>, 4 >>, << <<"8">>, 8 >>,
      << <<"1","6">>, 16 >>, << <<"3","2">>, 32 >> }

ClaimValid(tok) == \E p \in ClaimAllowed : p[1] = ClaimTrimmed(tok)

ClaimValue(tok) == (CHOOSE p \in ClaimAllowed : p[1] = ClaimTrimmed(tok))[2]

\* the values of the valid pieces of a text, in the order of the text
ClaimValues(text) ==
    LET F[k \in 0..ClaimTokenCount(text)] ==
            IF k = 0 THEN <<>>
            ELSE IF ClaimValid(ClaimToken(text, k))
                 THEN Append(F[k - 1], ClaimValue(ClaimToken(text, k)))
                 ELSE F[k - 1]
    IN F[ClaimTokenCount(text)]

\* the job has been through group selection
Selected == pc \notin {"start", "grid"} /\ error.msg # "no_valid_m2"

----------------------------------------------------------------------------
(* C1..C4: grid building and group selection *)

\* C1: whenever 0 <= group*4 < len(grid), the job selects exactly
\* min(4, len(grid) - group*4) configurations, and they are
\* grid[group*4 .. group*4 + count - 1] in grid order; for the fixed grid of 16
\* entries and for the parametric grid.
C1_GroupSelection ==
    (Selected /\ 0 <= group * 4 /\ group * 4 < Len(full_grid)) =>
        LET count == IF Len(full_grid) - group * 4 < 4
                     THEN Len(full_grid) - group * 4 ELSE 4
        IN /\ error.msg # "group_has_no_configs"
           /\ Len(ms_list) = count
           /\ \A i \in 1..count : ms_list[i] = full_grid[group * 4 + i]
           /\ variant = "fixed" => Len(full_grid) = 16

\* a short last group of a parametric grid of 5 has been selected
C1_Witness ==
    /\ pc = "selected"
    /\ variant = "ivf"
    /\ Len(full_grid) = 5
    /\ group = 1
    /\ ms_list = << full_grid[5] >>

\* C2: whenever group*4 >= len(grid), group selection fails: the job ends with
\* an error that names the attempted group index, and it has spawned no worker.
C2_EmptyGroupFails ==
    (Selected /\ group * 4 >= Len(full_grid)) =>
        /\ pc = "failed"
        /\ error.type = "ValueError"
        /\ error.msg = "group_has_no_configs"
        /\ error.group = group
        /\ procs = <<>>
        /\ \A i \in DOMAIN trace : trace[i].ev # "spawn"

\* group 1 of a parametric grid of 3 has been refused
C2_Witness ==
    /\ pc = "failed"
    /\ variant = "ivf"
    /\ Len(full_grid) = 3
    /\ group = 1
    /\ error.msg = "group_has_no_configs"

C4_EmptySweepFails ==
    /\ (variant = "ivf" /\ pc # "start" /\ ClaimValues(s2_values) = <<>>) =>
          /\ pc = "failed"
          /\ error.type = "ValueError"
          /\ error.msg = "no_valid_m2"
          /\ ms_list = <<>>
          /\ procs = <<>>
          /\ trace = <<>>
    /\ pc = "grid" => full_grid # <<>>

\* the job given "99" has failed
C4_Witness ==
    /\ pc = "failed"
    /\ s2_values = TextInvalid
    /\ error.msg = "no_valid_m2"

----------------------------------------------------------------------------
(* C5..C10: skipping, failing, ordering *)

\* the modes of a configuration in the order the specification gives them:
\* the baseline ivf mode, then (fixed job) the dual mode
ClaimModeOrder(v) ==
    IF v = "fixed" THEN <<"ivf_fp32_adapter", "dbam_dual_adapter">>
    ELSE <<"ivf_fp32_adapter">>

\* the number of a pair in the processing order, counted from 1
ClaimPairNo(ci, mi) == (ci - 1) * Len(ClaimModeOrder(variant)) + mi

\* the artifact file of the pair at a loop position
ClaimArtifactAt(ci, mi) ==
    Artifact(tag, Modes(variant)[mi].prefix, ms_list[ci])

ClaimIsSkipLine(l, cfg, mode) == l.k = "skip" /\ l.cfg = cfg /\ l.mode = mode

\* C5: in both jobs, when the artifact of the pair the loop has reached exists,
\* the step that deals with the pair starts no worker and writes a skip notice
\* to the console and to the log file.
C5_SkipWithNotice ==
    [][ (pc = "loop" /\ ClaimArtifactAt(cfgIdx, modeIdx) \in artifacts) =>
          /\ procs' = procs
          /\ pc' # "torun"
          /\ \E i \in (Len(console) + 1)..Len(console') :
                ClaimIsSkipLine(console'[i], Cfg, Mode.mode)
          /\ \E i \in (Len(logs[tag]) + 1)..Len(logs'[tag]) :
                ClaimIsSkipLine(logs'[tag][i], Cfg, Mode.mode) ]_vars

\* C6: in a run that follows an earlier run with the same results tag, every
\* pair whose artifact the earlier runs left behind is skipped when it is
\* reached: no worker is spawned for it and a skip notice for it is on the
\* console and in the log.
C6_RerunSkipsCompleted ==
    \A i \in DOMAIN trace :
       (/\ trace[i].ev = "check"
        /\ ClaimArtifactAt(trace[i].ci, trace[i].mi) \in arts0) =>
           /\ \A j \in DOMAIN procs :
                 ~(procs[j].ci = trace[i].ci /\ procs[j].mi = trace[i].mi)
           /\ \E j \in DOMAIN console :
                 ClaimIsSkipLine(console[j], trace[i].cfg, trace[i].mode)
           /\ \E j \in DOMAIN logs[tag] :
                 ClaimIsSkipLine(logs[tag][j], trace[i].cfg, trace[i].mode)

\* C7: once a worker has exited with a non-zero code, the job does nothing more
\* than take that exit: no later pair is checked or run and the failed
\* invocation is not run again; when the exit has been taken the job has failed
\* with an error carrying the exit code and the command.
C7_FailFast ==
    \A i \in DOMAIN trace :
       (trace[i].ev = "exit" /\ trace[i].rc # 0) =>
          /\ pc # "done"
          /\ \A j \in DOMAIN trace :
                j > i => /\ trace[j].ev = "reap"
                         /\ trace[j].ci = trace[i].ci
                         /\ trace[j].mi = trace[i].mi
          /\ (\E j \in DOMAIN trace : j > i) =>
                /\ pc = "failed"
                /\ error.type = "RuntimeError"
                /\ error.rc = trace[i].rc
                /\ error.cfg = trace[i].cfg
                /\ error.mode = trace[i].mode

\* a job has failed at its third invocation, with configurations left
C7_Witness ==
    /\ pc = "failed"
    /\ error.type = "RuntimeError"
    /\ Len(procs) = 3
    /\ cfgIdx < Len(ms_list)

\* C8 as claimed: after a job has failed on a worker's exit code, no artifact
\* was created during the job for the failed pair or for a pair after it.
C8_NoArtifactFromFailedOn ==
    error.type = "RuntimeError" =>
        \A ci \in DOMAIN ms_list, mi \in DOMAIN Modes(variant) :
           ClaimPairNo(ci, mi) >= ClaimPairNo(Cur.ci, Cur.mi) =>
               ClaimArtifactAt(ci, mi) \notin artifacts \ arts0

\* C8 as amended: after a job has failed on a worker's exit code, the failed
\* invocation is the last one the job made, no worker was invoked for a later
\* pair, and every artifact created during the job is the output file of the
\* failed invocation or of one before it.
C8_NoInvocationAfterFailure ==
    error.type = "RuntimeError" =>
        /\ {i \in DOMAIN procs : procs[i].rc # 0} = {Len(procs)}
        /\ \A i, j \in DOMAIN procs :
              procs[j].rc # 0 =>
                 ClaimPairNo(procs[i].ci, procs[i].mi)
                    <= ClaimPairNo(procs[j].ci, procs[j].mi)
        /\ artifacts \ arts0 \subseteq
              { Artifact(tag, procs[i].prefix, procs[i].cfg) :
                   i \in DOMAIN procs }

\* a job has failed on a worker that had written its artifact, with
\* configurations left
C8_Witness ==
    /\ pc = "failed"
    /\ error.type = "RuntimeError"
    /\ cfgIdx < Len(ms_list)
    /\ ClaimArtifactAt(cfgIdx, modeIdx) \in artifacts \ arts0

\* C9: the pairs are dealt with in one order, configurations in the order of
\* the selected slice and, for each, the baseline mode before the dual mode:
\* the k-th artifact check of a run is for the k-th pair of that order, and
\* workers start, and exit, in that order.
C9_Ordering ==
    LET IsCheck(e) == e.ev = "check"
        IsSpawn(e) == e.ev = "spawn"
        IsExit(e) == e.ev = "exit"
        checks == SelectSeq(trace, IsCheck)
        spawns == SelectSeq(trace, IsSpawn)
        exits == SelectSeq(trace, IsExit)
        InOrder(es) ==
            /\ \A k \in DOMAIN es :
                  /\ es[k].ci \in DOMAIN ms_list
                  /\ es[k].mi \in DOMAIN ClaimModeOrder(variant)
                  /\ es[k].cfg = ms_list[es[k].ci]
                  /\ es[k].mode = ClaimModeOrder(variant)[es[k].mi]
            /\ \A k \in 1..(Len(es) - 1) :
                  ClaimPairNo(es[k].ci, es[k].mi)
                     < ClaimPairNo(es[k + 1].ci, es[k + 1].mi)
    IN /\ InOrder(checks)
       /\ \A k \in DOMAIN checks : ClaimPairNo(checks[k].ci, checks[k].mi) = k
       /\ InOrder(spawns)
       /\ InOrder(exits)

\* a fixed-grid job has run all eight of its invocations
C9_Witness ==
    /\ pc = "done"
    /\ variant = "fixed"
    /\ Len(procs) = 8

\* C10: at most one worker is running at any time, and when a worker is
\* started every worker started before it has exited and had its exit taken.
C10_OneWorkerAtATime ==
    /\ Cardinality({i \in DOMAIN procs : procs[i].st = "running"}) <= 1
    /\ \A i \in DOMAIN procs :
          i < Len(procs) => procs[i].st = "exited" /\ procs[i].reaped

\* a second worker is running, the first one exited and taken
C10_Witness ==
    /\ Len(procs) >= 2
    /\ Cur.st = "running"
    /\ procs[1].reaped

----------------------------------------------------------------------------
(* C11..C20 *)

\* two jobs were given the same adapter hyperparameters
ClaimSameHyper(a, b) ==
    /\ a.tau = b.tau
    /\ a.beta = b.beta
    /\ a.cands = b.cands
    /\ a.teacher = b.teacher
    /\ a.lr = b.lr
    /\ a.epochs = b.epochs
    /\ a.subset = b.subset
    /\ a.q_batch = b.q_batch

\* both processes have been through the first lines of main() with --slug auto
ClaimBothDerived ==
    /\ pc \notin {"start"}
    /\ other.pc \notin {"absent", "start"}
    /\ hyper.slug = SlugAuto
    /\ other.hyper.slug = SlugAuto

\* C11: with --slug auto, two jobs derive the same slug exactly when their
\* adapter hyperparameters (temperature, beta, candidate count, teacher,
\* learning rate, epochs, subset size, query batch size) are the same: equal
\* sets give equal slugs and a change of any one of them changes the slug.
C11_SlugInjective ==
    ClaimBothDerived => (ClaimSameHyper(hyper, other.hyper) <=> slug = other.slug)

\* the half of C11 that the derivation has: equal hyperparameters, equal slugs
C11_SlugDeterministic ==
    (ClaimBothDerived /\ ClaimSameHyper(hyper, other.hyper)) => slug = other.slug

\* the first four entries of the fixed grid
ClaimGroupZero == << <<1,1,1>>, <<1,2,1>>, <<1,4,1>>, <<1,8,1>> >>

ClaimSpawned(ci, mi) ==
    \E j \in DOMAIN trace :
       trace[j].ev = "spawn" /\ trace[j].ci = ci /\ trace[j].mi = mi

ClaimSkipped(ci, mi) ==
    \E j \in DOMAIN trace :
       trace[j].ev = "skip" /\ trace[j].ci = ci /\ trace[j].mi = mi

\* C12: the fixed-grid job with group 0 selects (1,1,1), (1,2,1), (1,4,1),
\* (1,8,1); its artifact checks go configuration by configuration, the baseline
\* mode and then the dual mode; and what is done with a pair depends on that
\* pair's own artifact alone: it is skipped exactly when its own file was
\* there, and its worker is invoked exactly when it was not, whatever holds of
\* the file of the other mode.
C12_GroupZeroIndependentChecks ==
    (variant = "fixed" /\ group = 0 /\ Selected) =>
        LET IsCheck(e) == e.ev = "check"
            checks == SelectSeq(trace, IsCheck)
        IN /\ ms_list = ClaimGroupZero
           /\ \A k \in DOMAIN checks :
                 /\ checks[k].cfg = ClaimGroupZero[(k + 1) \div 2]
                 /\ checks[k].mode =
                       (IF k % 2 = 1 THEN "ivf_fp32_adapter"
                        ELSE "dbam_dual_adapter")
           /\ \A i \in DOMAIN trace :
                 trace[i].ev = "check" =>
                    LET ci == trace[i].ci
                        mi == trace[i].mi
                        had == ClaimArtifactAt(ci, mi) \in arts0
                        pending == i = Len(trace) /\ pc = "torun"
                    IN /\ ClaimSkipped(ci, mi) <=> had
                       /\ (ClaimSpawned(ci, mi) \/ pending) <=> ~had
                       /\ ClaimSpawned(ci, mi) =>
                             \E j \in DOMAIN procs :
                                /\ procs[j].cfg = ClaimGroupZero[ci]
                                /\ procs[j].mode = trace[i].mode

\* in one run of group 0 the baseline of the first configuration was skipped
\* and its dual worker invoked, and the baseline worker of the second
\* configuration was invoked and its dual skipped
C12_Witness ==
    /\ variant = "fixed"
    /\ group = 0
    /\ ClaimSkipped(1, 1) /\ ClaimSpawned(1, 2)
    /\ ClaimSpawned(2, 1) /\ ClaimSkipped(2, 2)

\* the job has opened its log file in this run
ClaimLogOpened == teeOpen \/ pc = "done" \/ error.type = "RuntimeError"

\* C13: from the moment the log file is opened, the console and the log file
\* carry the same lines in the same order: every line the job prints (the
\* log-path announcement, headers, command echoes, worker output, skip
\* notices, completion messages) is in the log, and the log has no other line.
C13_LogMirrorsConsole ==
    ClaimLogOpened => logs[tag] = console

\* the part of C13 the jobs have: the worker's output lines are the same on
\* the console and in the log
C13_WorkerLinesMirrored ==
    ClaimLogOpened =>
        LET IsOut(l) == l.k = "out"
        IN SelectSeq(logs[tag], IsOut) = SelectSeq(console, IsOut)

\* some process of the two has invoked the worker for the pair at a position
ClaimInvokedBy(ps, ci, mi) == \E j \in DOMAIN ps : ps[j].ci = ci /\ ps[j].mi = mi

\* C14: when two jobs on the same results directory and group have both ended
\* normally, every pair of the group either had its artifact before the jobs
\* started or had its worker invoked by at least one of them.  (That both can
\* invoke the worker for the same pair is shown by the witness.)
C14_AtLeastOnce ==
    (pc = "done" /\ other.pc = "done") =>
        \A ci \in DOMAIN ms_list, mi \in DOMAIN Modes(variant) :
           \/ ClaimArtifactAt(ci, mi) \in arts0 \cap other.arts0
           \/ ClaimInvokedBy(procs, ci, mi)
           \/ ClaimInvokedBy(other.procs, ci, mi)

\* both jobs have ended normally and both invoked the worker for the first
\* pair, each having found its artifact absent
C14_Witness ==
    /\ pc = "done"
    /\ other.pc = "done"
    /\ ClaimInvokedBy(procs, 1, 1)
    /\ ClaimInvokedBy(other.procs, 1, 1)

\* the texts of the worker output lines in a stream
ClaimOutTexts(stream) ==
    LET IsOut(l) == l.k = "out"
        outs == SelectSeq(stream, IsOut)
    IN [k \in DOMAIN outs |-> outs[k].text]

\* what the workers of this run have printed that the executor has taken from
\* the pipe: all the lines of each invocation that has returned, and the lines
\* read so far of the one that has not
ClaimForwarded ==
    LET done == Cardinality({i \in DOMAIN procs : procs[i].reaped})
        part == IF procs # <<>> /\ ~Cur.reaped
                THEN Cur.emitted - Len(Cur.pipe) ELSE 0
    IN [k \in 1..(done * Len(wout) + part) |-> wout[((k - 1) % Len(wout)) + 1]]

\* C15: run_cmd writes every line the worker prints to the console and to the
\* log, in the order printed, before it looks at the exit code: when it has
\* looked, nothing is left in the pipe and all the worker's lines are on both
\* streams; it returns normally exactly when the exit code is 0, and otherwise
\* the job has failed with an error carrying the exit code and the command.
C15_ExecutorForwards ==
    procs # <<>> =>
        /\ ClaimOutTexts(console) = ClaimForwarded
        /\ ClaimOutTexts(logs[tag]) = ClaimForwarded
        /\ \A i \in DOMAIN procs :
              /\ procs[i].reaped =>
                    /\ procs[i].st = "exited"
                    /\ procs[i].pipe = <<>>
                    /\ procs[i].emitted = Len(wout)
              /\ i < Len(procs) => procs[i].reaped /\ procs[i].rc = 0
        /\ (Cur.reaped /\ Cur.rc = 0) => error = NoError /\ pc # "failed"
        /\ (Cur.reaped /\ Cur.rc # 0) =>
              /\ pc = "failed"
              /\ error.type = "RuntimeError"
              /\ error.rc = Cur.rc
              /\ error.cfg = Cur.cfg
              /\ error.mode = Cur.mode
        /\ error.type = "RuntimeError" => Cur.reaped /\ Cur.rc # 0

\* the second invocation of a run has failed after its worker printed the most
\* lines, all of them forwarded
C15_Witness ==
    /\ pc = "failed"
    /\ Len(procs) = 2
    /\ Cur.rc # 0
    /\ Len(wout) = MaxExecLines
    /\ ClaimOutTexts(logs[tag]) = wout \o wout

\* the invocations a run made for the pair at a position of the slice
ClaimInvocations(ci, mi) ==
    {j \in DOMAIN procs : procs[j].ci = ci /\ procs[j].mi = mi}

\* the artifact checks a run made for the pair at a position of the slice
ClaimChecks(ci, mi) ==
    {i \in DOMAIN trace :
        trace[i].ev = "check" /\ trace[i].ci = ci /\ trace[i].mi = mi}

\* the file of the pair was there when the check at trace position i was made:
\* it was there when the run started, or a worker invoked earlier in the run
\* writes the same file
ClaimHadArtifactAt(i, ci, mi) ==
    /\ ClaimArtifactAt(ci, mi) \in artifacts
    /\ \/ ClaimArtifactAt(ci, mi) \in arts0
       \/ \E k \in 1..(i - 1) :
             /\ trace[k].ev = "exit"
             /\ ClaimArtifactAt(trace[k].ci, trace[k].mi) = ClaimArtifactAt(ci, mi)

C17_LogOpenKeepsContent ==
    [][ (pc = "selected" /\ tag \in DOMAIN logs) =>
          /\ Len(logs'[tag]) >= Len(logs[tag])
          /\ SubSeq(logs'[tag], 1, Len(logs[tag])) = logs[tag] ]_vars

\* C18: a job that aborts on a configuration error (no valid sweep value, empty
\* group) does so in the steps before anything is created: from its start to
\* the abort no step changes the directories, the log files or the artifacts,
\* opens the log or spawns a worker; an abort with a configuration error comes
\* from nowhere else.
C18_ConfigErrorLeavesDisk ==
    [][ (pc \in {"start", "grid"} \/ error'.type = "ValueError") =>
          /\ pc \in {"start", "grid"}
          /\ dirs' = dirs
          /\ logs' = logs
          /\ artifacts' = artifacts
          /\ artifacts' = arts0
          /\ procs' = <<>>
          /\ teeOpen' = FALSE
          /\ console' = <<>>
          /\ pc' = "failed" => error'.type = "ValueError" ]_vars

\* a job has aborted on an empty group in a run root that an earlier job used
C18_Witness ==
    /\ pc = "failed"
    /\ error.msg = "group_has_no_configs"
    /\ dirs # {}
    /\ artifacts # {}
    /\ logs # <<>>

\* C19: group selection succeeds only for 0 <= group < ceil(len(grid)/4); for
\* every negative group index the job aborts with the empty-group error.
C19_GroupsPartition ==
    Selected =>
        /\ error.msg # "group_has_no_configs" =>
              0 <= group /\ group < (Len(full_grid) + 3) \div 4
        /\ group < 0 =>
              /\ pc = "failed"
              /\ error.msg = "group_has_no_configs"
              /\ ms_list = <<>>

ClaimEnded == pc \in {"done", "failed"}

\* the most worker invocations of a job: 8 in the fixed-grid job, 4 in the
\* parametric job
ClaimMostInvocations == IF variant = "fixed" THEN 8 ELSE 4

\* the job has not ended and cannot take a step
ClaimBlocked == ~ClaimEnded /\ ~ENABLED JobStep

\* C20: if every worker goes on to close its output and exit, every job ends,
\* normally or in failure; it never makes more than |slice| x |modes| worker
\* invocations (at most 8 in the fixed-grid job, 4 in the parametric job); and
\* whenever it cannot go on it is waiting for a worker that is still running.
C20_Termination ==
    /\ [](/\ Len(procs) <= Len(ms_list) * Len(ClaimModeOrder(variant))
          /\ Len(procs) <= ClaimMostInvocations
          /\ ClaimBlocked => (pc = "reading" /\ Cur.st = "running"))
    /\ <>ClaimEnded

\* a parametric job has ended normally after four invocations
C20_Witness ==
    /\ pc = "done"
    /\ variant = "ivf"
    /\ Len(procs) = 4

====
